---- MODULE Spec2Model ----
(***************************************************************************)
(* Model of pyTSEB/TSEBConfigFileInterface.py: the MyConfigParser reader   *)
(* (get / getint / getfloat / has_option scoped to one section), the three *)
(* schema extractors and the TSEBConfigFileInterface object with its two   *)
(* fields params and ready and its two methods get_data (load) and run.    *)
(*                                                                         *)
(* Python values are tagged tuples, so that a string "1", the int 1 and    *)
(* the float 1.0 are three different values:                               *)
(*   <<"str", s>>  <<"int", s>>  <<"float", s>>  <<"list", seq>>  <<"None">>*)
(* where s is the text of the value's repr.  A call that may raise returns *)
(* a record [exc, val]; exc = NoExc when the call returned val.            *)
(***************************************************************************)
EXTENDS Integers, Sequences, FiniteSets, TLC

\* params, ready: the two fields of the interface object
\* call:          the last call made on it, with its arguments
\* raised:        the exception that call left with (NoExc if it returned)
\* out:           what that call printed
\* model, entry:  the model object that call constructed and the entry point
\*                it called on it
\* ret:           the value that call returned
\* reads:         the number of get_data calls so far, up to MaxReads
VARIABLES params, ready, call, raised, out, model, entry, ret, reads

vars == <<params, ready, call, raised, out, model, entry, ret, reads>>

(***************************************************************************)
(* Bound: the integer literals written in a configuration are 0..MaxInt.   *)
(***************************************************************************)
MaxInt == 3

(***************************************************************************)
(* Bound: reads counts the get_data calls made on the object, up to        *)
(* MaxReads (the count saturates; the calls go on).                        *)
(***************************************************************************)
MaxReads == 2

(***************************************************************************)
(* Python values                                                           *)
(***************************************************************************)
None == <<"None">>

PyStr(s) == <<"str", s>>

PyInt(s) == <<"int", s>>

PyFloat(s) == <<"float", s>>

PyList(seq) == <<"list", seq>>

\* the omitted-argument sentinel of configparser's fallback keyword
UNSET == <<"_UNSET">>

\* the empty dict
EmptyDict == [k \in {} |-> None]

\* d1.update(d2)
update(d1, d2) == [k \in (DOMAIN d1) \cup (DOMAIN d2) |-> IF k \in DOMAIN d2 THEN d2[k] ELSE d1[k]]

(***************************************************************************)
(* Exceptions                                                              *)
(***************************************************************************)
NoExc == <<>>

NoOptionError(option) == <<"NoOptionError", option>>

ParserError(parameter, expected_type) == <<"ParserError", parameter, expected_type>>

AttributeError(name) == <<"AttributeError", name>>

TypeError(what) == <<"TypeError", what>>

KeyError(key) == <<"KeyError", key>>

Ok(v) == [exc |-> NoExc, val |-> v]

Raise(e) == [exc |-> e, val |-> None]

Failed(r) == r.exc # NoExc

(***************************************************************************)
(* The schema lists of TSEBConfigFileInterface                             *)
(***************************************************************************)
SITE_DESCRIPTION == <<"landcover", "lat", "lon", "alt", "stdlon", "z_T", "z_u", "z0_soil">>

VEGETATION_PROPERTIES == <<"leaf_width", "alpha_PT", "x_LAD">>

SPECTRAL_PROPERTIES == <<"emis_C", "emis_S", "rho_vis_C", "tau_vis_C", "rho_nir_C", "tau_nir_C", "rho_vis_S", "rho_nir_S">>

MODEL_FORMULATION == <<"model", "resistance_form", "KN_b", "KN_c", "KN_C_dash", "G_form", "G_constant", "G_ratio", "G_amp", "G_phase", "G_shape", "calc_row", "row_az", "output_file", "correct_LST", "flux_LR_method">>

IMAGE_VARS == <<"T_R1", "T_R0", "VZA", "LAI", "f_c", "f_g", "h_C", "w_C", "input_mask", "subset", "time", "DOY", "T_A1", "T_A0", "u", "ea", "S_dn", "L_dn", "p", "flux_LR", "flux_LR_ancillary">>

POINT_VARS == <<"f_c", "f_g", "w_C">>

KN_PARAMS == <<"KN_b", "KN_c", "KN_C_dash">>

G_PARAMS == <<"G_amp", "G_phase", "G_shape">>

Range(seq) == {seq[i] : i \in DOMAIN seq}

(***************************************************************************)
(* int(text) and float(text) on the literals a configuration may hold      *)
(***************************************************************************)
Digits == <<"0", "1", "2", "3", "4", "5", "6", "7", "8", "9">>

DecimalLits == {"0.3", "5.0", "45.0"}

\* int(text): only a digit string converts; "45.0" and "abc" are a ValueError
IsIntLit(text) == text \in Range(Digits)

\* float(text): digit strings and decimal literals convert
IsFloatLit(text) == text \in Range(Digits) \cup DecimalLits

\* repr(float(text)): float("1") is 1.0
FloatRepr(text) == IF text \in Range(Digits) THEN text \o ".0" ELSE text

Convert(conv, text) == IF conv = "int" THEN PyInt(text) ELSE PyFloat(FloatRepr(text))

Convertible(conv, text) == IF conv = "int" THEN IsIntLit(text) ELSE IsFloatLit(text)

(***************************************************************************)
(* MyConfigParser                                                          *)
(***************************************************************************)
\* MyConfigParser(top_section, interpolation=...) followed by reading the
\* option lines: the object has the attribute section, never top_section.
MyConfigParser(top_section, interpolation, options) ==
    [section |-> top_section, interpolation |-> interpolation, options |-> options]

has_option(parser, option) == option \in DOMAIN parser.options

\* get(option) = ConfigParser.get(self.section, option).  An absent option
\* raises NoOptionError.  For a present option the default BasicInterpolation
\* calls parser.get(section, option, raw=True, fallback=rest), which binds to
\* this override with one positional argument too many: TypeError.  A reader
\* built with interpolation=None returns the text.
get(parser, option) ==
    IF ~has_option(parser, option) THEN Raise(NoOptionError(option))
    ELSE IF parser.interpolation = "basic" THEN Raise(TypeError("get"))
    ELSE Ok(PyStr(parser.options[option]))

\* what getint / getfloat would be with self.section and a working get
getconv_section(parser, option, conv, fallback) ==
    IF ~has_option(parser, option)
    THEN IF fallback = UNSET THEN Raise(NoOptionError(option)) ELSE Ok(fallback)
    ELSE IF Convertible(conv, parser.options[option])
         THEN Ok(Convert(conv, parser.options[option]))
         ELSE Raise(ParserError(option, conv))

\* getint / getfloat: the argument self.top_section is evaluated first and the
\* object has no such attribute.  (With the attribute, ConfigParser._get calls
\* self.get(section, option, raw=, vars=), again one positional too many.)
getconv(parser, option, conv, fallback) ==
    IF "top_section" \notin DOMAIN parser
    THEN Raise(AttributeError("top_section"))
    ELSE Raise(TypeError("get"))

getint(parser, option, fallback) == getconv(parser, option, "int", fallback)

getfloat(parser, option, fallback) == getconv(parser, option, "float", fallback)

(***************************************************************************)
(* Schema extractors                                                       *)
(***************************************************************************)
getfloat_required(parser, option) == getfloat(parser, option, UNSET)

\* parser.get(p) or parser.getfloat(p), by the accessor's name
read(parser, option, accessor) ==
    IF accessor = "getfloat" THEN getfloat_required(parser, option) ELSE get(parser, option)

\* {p: parser.get(p) for p in names} or {p: parser.getfloat(p) for p in names}:
\* the names are read in list order and the first read that raises ends the
\* comprehension
ReadAll(parser, names, accessor) ==
    LET bad == {i \in DOMAIN names : Failed(read(parser, names[i], accessor))}
        first == CHOOSE i \in bad : \A j \in bad : i <= j
    IN  IF bad = {}
        THEN Ok([k \in Range(names) |-> read(parser, k, accessor).val])
        ELSE Raise(read(parser, names[first], accessor).exc)

\* [parser.getfloat(p) for p in names]
ReadList(parser, names) ==
    LET bad == {i \in DOMAIN names : Failed(getfloat_required(parser, names[i]))}
        first == CHOOSE i \in bad : \A j \in bad : i <= j
    IN  IF bad = {}
        THEN Ok([i \in DOMAIN names |-> getfloat_required(parser, names[i]).val])
        ELSE Raise(getfloat_required(parser, names[first]).exc)

\* lines 165-168: calc_row with the [0, 0] fallback, then row_az
parse_calc_row(parser) ==
    LET calc_row == getint(parser, "calc_row", PyList(<<PyInt("0"), PyInt("0")>>))
        row_az == getfloat(parser, "row_az", UNSET)
    IN  IF Failed(calc_row) THEN calc_row
        ELSE IF calc_row.val # PyList(<<PyInt("0"), PyInt("0")>>)
             THEN IF Failed(row_az) THEN row_az
                  ELSE Ok(PyList(<<PyInt("1"), row_az.val>>))
             ELSE calc_row

\* lines 170-179: G_form with fallback 1 and the sub-parameters of its branch
parse_g_form(parser) ==
    LET g_form == getint(parser, "G_form", PyInt("1"))
        g_constant == getfloat(parser, "G_constant", UNSET)
        g_params == ReadList(parser, G_PARAMS)
        g_ratio == getfloat(parser, "G_ratio", UNSET)
    IN  IF Failed(g_form) THEN g_form
        ELSE IF g_form.val = PyInt("0")
             THEN IF Failed(g_constant) THEN g_constant
                  ELSE Ok(PyList(<<PyList(<<PyInt("0")>>), g_constant.val>>))
        ELSE IF g_form.val = PyInt("2")
             THEN IF Failed(g_params) THEN g_params
                  ELSE Ok(PyList(<<PyList(<<PyInt("2")>> \o g_params.val), PyFloat("12.0")>>))
        ELSE IF Failed(g_ratio) THEN g_ratio
             ELSE Ok(PyList(<<PyList(<<PyInt("1")>>), g_ratio.val>>))

\* lines 181-185: the two disTSEB-only fields
parse_disTSEB(parser, conf) ==
    LET flux_LR_method == get(parser, "flux_LR_method")
        correct_LST == getint(parser, "correct_LST", UNSET)
    IN  IF conf["model"] = PyStr("disTSEB")
        THEN IF Failed(flux_LR_method) THEN flux_LR_method
             ELSE IF Failed(correct_LST) THEN correct_LST
             ELSE Ok(update(conf, [k \in {"flux_LR_method", "correct_LST"} |->
                                     IF k = "flux_LR_method" THEN flux_LR_method.val
                                     ELSE correct_LST.val]))
        ELSE Ok(conf)

parse_common_config(parser) ==
    LET model_name == get(parser, "model")
        output_file == get(parser, "output_file")
        resistance_form == getint(parser, "resistance_form", None)
        calc_row == parse_calc_row(parser)
        g_form == parse_g_form(parser)
        conf == [k \in {"model", "output_file", "resistance_form", "calc_row", "G_form"} |->
                   CASE k = "model" -> model_name.val
                     [] k = "output_file" -> output_file.val
                     [] k = "resistance_form" -> resistance_form.val
                     [] k = "calc_row" -> calc_row.val
                     [] k = "G_form" -> g_form.val]
    IN  IF Failed(model_name) THEN model_name
        ELSE IF Failed(output_file) THEN output_file
        ELSE IF Failed(resistance_form) THEN resistance_form
        ELSE IF Failed(calc_row) THEN calc_row
        ELSE IF Failed(g_form) THEN g_form
        ELSE parse_disTSEB(parser, conf)

\* lines 194-198 and 219-223: KN_b, KN_c, KN_C_dash, then the site, vegetation
\* and spectral lists, each read with the same accessor
parse_properties(parser, accessor) ==
    LET kn == ReadAll(parser, KN_PARAMS, accessor)
        site == ReadAll(parser, SITE_DESCRIPTION, accessor)
        veg == ReadAll(parser, VEGETATION_PROPERTIES, accessor)
        spec == ReadAll(parser, SPECTRAL_PROPERTIES, accessor)
    IN  IF Failed(kn) THEN kn
        ELSE IF Failed(site) THEN site
        ELSE IF Failed(veg) THEN veg
        ELSE IF Failed(spec) THEN spec
        ELSE Ok(update(update(update(kn.val, site.val), veg.val), spec.val))

\* lines 200-206: the image variables to read, from the conf built so far
image_vars(parser, conf) ==
    ((Range(IMAGE_VARS)
        \ (IF conf["model"] # PyStr("DTD") THEN {"T_A0", "T_R0"} ELSE {}))
        \ (IF conf["model"] # PyStr("disTSEB") THEN {"flux_LR", "flux_LR_ancillary"} ELSE {}))
        \ (IF ~has_option(parser, "subset") THEN {"subset"} ELSE {})

\* The set of results the call can have: conf is the function's own new dict,
\* so conf['model'] is a KeyError unless one of the lists read above holds
\* 'model'.  Past that, img_vars is a set and is read in an unspecified
\* order, so any unreadable variable can be the one that raises.
parse_image_config(parser) ==
    LET props == parse_properties(parser, "get")
        conf == props.val
        img_vars == image_vars(parser, conf)
        bad == {p \in img_vars : Failed(get(parser, p))}
    IN  IF Failed(props) THEN {props}
        ELSE IF "model" \notin DOMAIN conf THEN {Raise(KeyError("model"))}
        ELSE IF bad # {} THEN {Raise(get(parser, p).exc) : p \in bad}
        ELSE {Ok(update(conf, [p \in img_vars |-> get(parser, p).val]))}

parse_point_config(parser) ==
    LET props == parse_properties(parser, "getfloat")
        input_file == get(parser, "input_file")
        point == ReadAll(parser, POINT_VARS, "get")
    IN  IF Failed(props) THEN {props}
        ELSE IF Failed(input_file) THEN {input_file}
        ELSE IF Failed(point) THEN {point}
        ELSE {Ok(update(update(props.val, [k \in {"input_file"} |-> input_file.val]), point.val))}

(***************************************************************************)
(* TSEBConfigFileInterface                                                 *)
(***************************************************************************)
NoOut == <<>>

\* the value of a call that raised instead of returning
NoReturn == <<"raised">>

NoModel == [cls |-> "none", params |-> EmptyDict]

\* the state after get_data, for one result r of the mode's extractor
handle_mode_result(self, common, r) ==
    IF ~Failed(r)
    THEN [params |-> update(common.val, r.val), ready |-> TRUE, raised |-> NoExc, out |-> NoOut]
    ELSE IF r.exc[1] = "NoOptionError"
    THEN [params |-> common.val, ready |-> self.ready, raised |-> NoExc,
          out |-> <<"Error: missing parameter", r.exc[2]>>]
    ELSE IF r.exc[1] = "ParserError"
    THEN [params |-> common.val, ready |-> self.ready, raised |-> NoExc,
          out |-> <<"Error: could not parse parameter", r.exc[2], r.exc[3]>>]
    ELSE [params |-> self.params, ready |-> self.ready, raised |-> r.exc, out |-> NoOut]

\* get_data with self.ready = True moved to the top of the method
get_data_ready_first(self, parser, is_image) ==
    LET common == parse_common_config(parser)
        entered == [params |-> self.params, ready |-> TRUE]
    IN  IF Failed(common)
        THEN {[params |-> self.params, ready |-> TRUE, raised |-> common.exc, out |-> NoOut]}
        ELSE {handle_mode_result(entered, common, r) :
                r \in (IF is_image THEN parse_image_config(parser) ELSE parse_point_config(parser))}

\* get_data(self, parser, is_image): the set of states the call can end in.
\* _parse_common_config runs before the try, so what it raises leaves
\* get_data with self untouched.
get_data(self, parser, is_image) ==
    LET common == parse_common_config(parser)
    IN  IF Failed(common)
        THEN {[params |-> self.params, ready |-> self.ready, raised |-> common.exc, out |-> NoOut]}
        ELSE {handle_mode_result(self, common, r) :
                r \in (IF is_image THEN parse_image_config(parser) ELSE parse_point_config(parser))}

KnownModels == {"TSEB_PT", "TSEB_2T", "DTD", "disTSEB"}

\* the class run constructs for a model name
ModelClass(name) ==
    CASE name = "TSEB_PT" -> "PyTSEB"
      [] name = "TSEB_2T" -> "PyTSEB2T"
      [] name = "DTD" -> "PyDTD"
      [] name = "disTSEB" -> "PydisTSEB"

\* what the point-series entry point hands back (opaque)
PointSeries == <<"tuple", "in_data", "out_data">>

\* run without the test of self.ready
run_unguarded(self, is_image) ==
    IF "model" \notin DOMAIN self.params
    THEN [model |-> NoModel, entry |-> "none", ret |-> NoReturn,
          raised |-> KeyError("model"), out |-> NoOut]
    ELSE IF self.params["model"][1] = "str" /\ self.params["model"][2] \in KnownModels
    THEN [model |-> [cls |-> ModelClass(self.params["model"][2]), params |-> self.params],
          entry |-> IF is_image THEN "process_local_image" ELSE "process_point_series_array",
          ret |-> IF is_image THEN None ELSE PointSeries,
          raised |-> NoExc, out |-> NoOut]
    ELSE [model |-> NoModel, entry |-> "none", ret |-> None, raised |-> NoExc,
          out |-> <<"Unknown model: ", self.params["model"][2], "!">>]

\* run(self, is_image): the constructed model, the entry point called, the
\* returned value, the exception raised and the message printed
run(self, is_image) ==
    IF self.ready
    THEN IF "model" \notin DOMAIN self.params
         THEN [model |-> NoModel, entry |-> "none", ret |-> NoReturn,
               raised |-> KeyError("model"), out |-> NoOut]
         ELSE IF self.params["model"][1] = "str" /\ self.params["model"][2] \in KnownModels
         THEN [model |-> [cls |-> ModelClass(self.params["model"][2]), params |-> self.params],
               entry |-> IF is_image THEN "process_local_image" ELSE "process_point_series_array",
               ret |-> IF is_image THEN None ELSE PointSeries,
               raised |-> NoExc, out |-> NoOut]
         ELSE [model |-> NoModel, entry |-> "none", ret |-> None, raised |-> NoExc,
               out |-> <<"Unknown model: ", self.params["model"][2], "!">>]
    ELSE [model |-> NoModel, entry |-> "none", ret |-> None, raised |-> NoExc,
          out |-> <<"pyTSEB will not be run due to errors in the input data.">>]

(***************************************************************************)
(* The configurations handed to get_data                                   *)
(***************************************************************************)
ModelNames == KnownModels \cup {"tseb_pt"}

AllKeys == Range(SITE_DESCRIPTION) \cup Range(VEGETATION_PROPERTIES) \cup Range(SPECTRAL_PROPERTIES)
             \cup Range(MODEL_FORMULATION) \cup Range(IMAGE_VARS) \cup Range(POINT_VARS) \cup {"input_file"}

\* a configuration that defines every key, with well-formed values
Base(m) ==
    [k \in AllKeys |->
        CASE k = "model" -> m
          [] k = "output_file" -> "out"
          [] k = "input_file" -> "in"
          [] k = "flux_LR_method" -> "linear"
          [] k \in {"resistance_form", "G_form", "calc_row", "correct_LST", "G_amp"} -> "1"
          [] k = "G_phase" -> "2"
          [] k = "G_shape" -> "3"
          [] k = "G_constant" -> "5.0"
          [] k \in {"row_az", "lat"} -> "45.0"
          [] k \in Range(IMAGE_VARS) -> "img"
          [] OTHER -> "0.3"]

Absent == "<absent>"

Drop(keys) == [k \in keys |-> Absent]

Set(k, text) == [x \in {k} |-> text]

Override(base, v) ==
    [k \in (DOMAIN base) \ {x \in DOMAIN v : v[x] = Absent} |-> IF k \in DOMAIN v THEN v[k] ELSE base[k]]

DropKeys == {"model", "output_file", "resistance_form", "calc_row", "row_az", "G_form", "G_ratio",
             "flux_LR_method", "correct_LST", "KN_b", "lat", "rho_nir_S", "input_file", "w_C",
             "subset", "T_R1", "T_A0", "flux_LR"}

BadKeys == {"resistance_form", "calc_row", "row_az", "G_form", "G_ratio", "correct_LST", "KN_c", "lat",
            "leaf_width", "emis_C"}

Variants ==
    {Drop({})}
      \cup {Drop({k}) : k \in DropKeys}
      \cup {Set(k, "abc") : k \in BadKeys}
      \cup {Set(k, Digits[i + 1]) : k \in {"G_form", "calc_row"}, i \in 0..MaxInt}
      \cup {update(Set("G_form", "0"), Drop({"G_ratio", "G_amp", "G_phase", "G_shape"})),
            update(Set("G_form", "0"), Drop({"G_constant"})),
            update(Set("G_form", "0"), Set("G_constant", "abc")),
            update(Set("G_form", "2"), Drop({"G_ratio", "G_constant"})),
            update(Set("G_form", "2"), Drop({"G_phase"})),
            Drop({"G_form", "G_constant", "G_amp", "G_phase", "G_shape"}),
            Drop({"calc_row", "row_az"}),
            update(Drop({"calc_row"}), Set("row_az", "abc")),
            Drop({"flux_LR_method", "correct_LST"}),
            Drop({"T_A0", "T_R0", "flux_LR", "flux_LR_ancillary", "subset"})}

Configs == {Override(Base(m), v) : m \in ModelNames, v \in Variants}

Readers == {MyConfigParser("top", "none", c) : c \in Configs}
             \cup {MyConfigParser("top", "basic", Override(Base(m), v)) :
                     m \in ModelNames, v \in {Drop({}), Drop({"model"}), Drop({"output_file"})}}

NoParser == MyConfigParser("", "none", EmptyDict)

(***************************************************************************)
(* State machine: one interface object, any sequence of get_data and run   *)
(***************************************************************************)
\* __init__
Init ==
    /\ params = EmptyDict
    /\ ready = FALSE
    /\ call = [op |-> "init", parser |-> NoParser, is_image |-> FALSE]
    /\ raised = NoExc
    /\ out = NoOut
    /\ model = NoModel
    /\ entry = "none"
    /\ ret = None
    /\ reads = 0

GetData ==
    \E parser \in Readers, is_image \in BOOLEAN :
      \E o \in get_data([params |-> params, ready |-> ready], parser, is_image) :
        /\ params' = o.params
        /\ ready' = o.ready
        /\ call' = [op |-> "get_data", parser |-> parser, is_image |-> is_image]
        /\ raised' = o.raised
        /\ out' = o.out
        /\ model' = NoModel
        /\ entry' = "none"
        /\ ret' = IF o.raised = NoExc THEN None ELSE NoReturn
        /\ reads' = IF reads < MaxReads THEN reads + 1 ELSE reads

Run ==
    \E is_image \in BOOLEAN :
      LET r == run([params |-> params, ready |-> ready], is_image)
      IN  /\ call' = [op |-> "run", parser |-> NoParser, is_image |-> is_image]
          /\ raised' = r.raised
          /\ out' = r.out
          /\ model' = r.model
          /\ entry' = r.entry
          /\ ret' = r.ret
          /\ UNCHANGED <<params, ready, reads>>

Next == GetData \/ Run

Spec == Init /\ [][Next]_vars

(***************************************************************************)
(* run as a function of the object's two fields: SpecRun applies run to    *)
(* every object with a mapping of the family below.  get_data sets ready   *)
(* only together with a mapping that holds 'model', so ready objects hold  *)
(* one.                                                                    *)
(***************************************************************************)
CalcRowValues == {PyList(<<PyInt("0"), PyInt("0")>>), PyList(<<PyInt("1"), PyFloat("45.0")>>)}

GFormValues ==
    {PyList(<<PyList(<<PyInt("0")>>), PyFloat("5.0")>>),
     PyList(<<PyList(<<PyInt("1")>>), PyFloat("0.3")>>),
     PyList(<<PyList(<<PyInt("2"), PyFloat("1.0"), PyFloat("2.0"), PyFloat("3.0")>>), PyFloat("12.0")>>)}

ResistanceValues == {None} \cup {PyInt(Digits[i + 1]) : i \in 0..MaxInt}

Mapping(m, resistance_form, calc_row, g_form) ==
    [k \in {"model", "output_file", "resistance_form", "calc_row", "G_form"} |->
        CASE k = "model" -> PyStr(m)
          [] k = "output_file" -> PyStr("out")
          [] k = "resistance_form" -> resistance_form
          [] k = "calc_row" -> calc_row
          [] k = "G_form" -> g_form]

Mappings ==
    {EmptyDict} \cup {Mapping(m, r, c, g) : m \in ModelNames, r \in ResistanceValues,
                                           c \in CalcRowValues, g \in GFormValues}

InitRun ==
    /\ params \in Mappings
    /\ ready \in BOOLEAN
    /\ ready => params # EmptyDict
    /\ call = [op |-> "init", parser |-> NoParser, is_image |-> FALSE]
    /\ raised = NoExc
    /\ out = NoOut
    /\ model = NoModel
    /\ entry = "none"
    /\ ret = None
    /\ reads = 0

NextRun == Run

SpecRun == InitRun /\ [][NextRun]_vars

(***************************************************************************)
(* Vocabulary of the properties                                            *)
(***************************************************************************)
cfg == call.parser.options

PropertyFields == Range(KN_PARAMS) \cup Range(SITE_DESCRIPTION) \cup Range(VEGETATION_PROPERTIES)
                    \cup Range(SPECTRAL_PROPERTIES)

CommonFields(name) ==
    {"model", "output_file", "resistance_form", "calc_row", "G_form"}
      \cup (IF name = "disTSEB" THEN {"flux_LR_method", "correct_LST"} ELSE {})

\* the image variables the schema requires (subset is optional)
RequiredImageVars(name) ==
    Range(IMAGE_VARS) \ ({"subset"}
      \cup (IF name = "DTD" THEN {} ELSE {"T_A0", "T_R0"})
      \cup (IF name = "disTSEB" THEN {} ELSE {"flux_LR", "flux_LR_ancillary"}))

SchemaRequired(name, is_image) ==
    CommonFields(name) \cup PropertyFields
      \cup (IF is_image THEN RequiredImageVars(name) ELSE {"input_file"} \cup Range(POINT_VARS))

\* the mapping p holds every field the schema requires for its model and the mode
Complete(p, is_image) ==
    /\ "model" \in DOMAIN p
    /\ p["model"][1] = "str"
    /\ SchemaRequired(p["model"][2], is_image) \subseteq DOMAIN p

Partial(p) == p # EmptyDict /\ ~Complete(p, TRUE) /\ ~Complete(p, FALSE)

NotRunMessage == <<"pyTSEB will not be run due to errors in the input data.">>

ExcType(e) == IF e = NoExc THEN "" ELSE e[1]

\* the last call was a get_data that met a missing field or a failed coercion
MetFieldError ==
    /\ call.op = "get_data"
    /\ \/ ExcType(raised) \in {"NoOptionError", "ParserError"}
       \/ out # NoOut

\* the configuration of the last get_data defines 'model' and, outside the
\* keys of S, every key with its well-formed value
WellFormedOutside(S) ==
    /\ call.op = "get_data"
    /\ "model" \in DOMAIN cfg
    /\ \A k \in AllKeys \ S : k \in DOMAIN cfg /\ cfg[k] = Base(cfg["model"])[k]

Reported(e) ==
    \/ raised = e
    \/ e[1] = "NoOptionError" /\ out = <<"Error: missing parameter", e[2]>>
    \/ e[1] = "ParserError" /\ out = <<"Error: could not parse parameter", e[2], e[3]>>

Fresh == [params |-> EmptyDict, ready |-> FALSE]

C3_NoExceptionPropagates == raised = NoExc

(***************************************************************************)
(* C4: a configuration with model = disTSEB and every other field but      *)
(* flux_LR_method leaves readiness false and reports flux_LR_method as     *)
(* missing; for another model flux_LR_method and correct_LST are not in    *)
(* the mapping.                                                            *)
(***************************************************************************)
C4_MissingFluxMethodReported ==
    /\ WellFormedOutside({"flux_LR_method"}) /\ cfg["model"] = "disTSEB"
         /\ "flux_LR_method" \notin DOMAIN cfg
         => ~ready /\ Reported(NoOptionError("flux_LR_method"))
    /\ "model" \in DOMAIN params /\ params["model"] # PyStr("disTSEB")
         => {"flux_LR_method", "correct_LST"} \cap DOMAIN params = {}

(***************************************************************************)
(* C5: run constructs a model iff the object is ready and its model name   *)
(* is one of the four variants; it then constructs the variant of that     *)
(* name from the mapping and calls the entry point of the mode; otherwise  *)
(* it constructs nothing, calls nothing and returns None; in every case    *)
(* it leaves the mapping and readiness as they were.                       *)
(***************************************************************************)
C5_Known == ready' /\ "model" \in DOMAIN params' /\ params'["model"] \in {PyStr(n) : n \in KnownModels}

C5_Variant ==
    [n \in KnownModels |-> IF n = "TSEB_PT" THEN "PyTSEB" ELSE IF n = "TSEB_2T" THEN "PyTSEB2T"
                           ELSE IF n = "DTD" THEN "PyDTD" ELSE "PydisTSEB"]

C5_RunStep ==
    call'.op = "run" =>
      /\ UNCHANGED <<params, ready>>
      /\ (model' # NoModel) <=> C5_Known
      /\ C5_Known =>
           /\ model' = [cls |-> C5_Variant[params["model"][2]], params |-> params]
           /\ entry' = IF call'.is_image THEN "process_local_image" ELSE "process_point_series_array"
      /\ ~C5_Known => model' = NoModel /\ entry' = "none" /\ ret' = None

C5_RunDispatch == [][C5_RunStep]_vars

\* run on a ready DTD mapping in image mode constructed PyDTD and called the
\* image entry point
C5_Witness ==
    /\ call.op = "run"
    /\ ready
    /\ params["model"] = PyStr("DTD")
    /\ call.is_image
    /\ model.cls = "PyDTD"
    /\ entry = "process_local_image"

(***************************************************************************)
(* C6: in image mode, for a configuration that defines the image           *)
(* variables, the image-variable keys of the mapping are the full list     *)
(* minus T_A0, T_R0 unless the model is DTD, minus flux_LR,                *)
(* flux_LR_ancillary unless it is disTSEB, minus subset unless defined.    *)
(***************************************************************************)
C6_ImageVariableKeys ==
    WellFormedOutside({"subset"}) /\ call.is_image /\ call.parser.interpolation = "none" =>
      DOMAIN params \cap Range(IMAGE_VARS)
        = Range(IMAGE_VARS)
            \ ((IF cfg["model"] = "DTD" THEN {} ELSE {"T_A0", "T_R0"})
                 \cup (IF cfg["model"] = "disTSEB" THEN {} ELSE {"flux_LR", "flux_LR_ancillary"})
                 \cup (IF "subset" \in DOMAIN cfg THEN {} ELSE {"subset"}))

(***************************************************************************)
(* C7: the G_form field is [[0], G_constant] for G_form = 0,               *)
(* [[2, G_amp, G_phase, G_shape], 12.0] for G_form = 2 and [[1], G_ratio]  *)
(* for an omitted G_form or any other integer; only the sub-parameters of  *)
(* the chosen branch are needed, and their absence is an error.            *)
(***************************************************************************)
C7_GKeys == {"G_form", "G_constant", "G_ratio", "G_amp", "G_phase", "G_shape"}

C7_Defined(keys) == \A k \in keys : k \in DOMAIN cfg /\ IsFloatLit(cfg[k])

C7_Float(k) == PyFloat(FloatRepr(cfg[k]))

C7_Branch == IF "G_form" \in DOMAIN cfg THEN cfg["G_form"] ELSE "1"

C7_SubParams ==
    IF C7_Branch = "0" THEN {"G_constant"}
    ELSE IF C7_Branch = "2" THEN {"G_amp", "G_phase", "G_shape"}
    ELSE {"G_ratio"}

C7_Expected ==
    IF C7_Branch = "0" THEN PyList(<<PyList(<<PyInt("0")>>), C7_Float("G_constant")>>)
    ELSE IF C7_Branch = "2"
         THEN PyList(<<PyList(<<PyInt("2"), C7_Float("G_amp"), C7_Float("G_phase"), C7_Float("G_shape")>>),
                       PyFloat("12.0")>>)
    ELSE PyList(<<PyList(<<PyInt("1")>>), C7_Float("G_ratio")>>)

C7_GFormField ==
    WellFormedOutside(C7_GKeys) /\ ~call.is_image /\ call.parser.interpolation = "none"
      /\ IsIntLit(C7_Branch) =>
        IF C7_Defined(C7_SubParams)
        THEN "G_form" \in DOMAIN params /\ params["G_form"] = C7_Expected
        ELSE \E k \in C7_SubParams : Reported(NoOptionError(k)) \/ Reported(ParserError(k, "float"))

(***************************************************************************)
(* C8: the calc_row field is [0, 0] when calc_row is omitted (row_az is    *)
(* then not needed) and [1, row_az] when calc_row is defined; in the       *)
(* second case a missing or non-float row_az is an error.                  *)
(***************************************************************************)
C8_CalcRowField ==
    WellFormedOutside({"calc_row", "row_az"}) /\ ~call.is_image /\ call.parser.interpolation = "none"
      /\ ("calc_row" \in DOMAIN cfg => IsIntLit(cfg["calc_row"])) =>
        IF "calc_row" \notin DOMAIN cfg
        THEN "calc_row" \in DOMAIN params /\ params["calc_row"] = PyList(<<PyInt("0"), PyInt("0")>>)
        ELSE IF "row_az" \in DOMAIN cfg /\ IsFloatLit(cfg["row_az"])
        THEN "calc_row" \in DOMAIN params
               /\ params["calc_row"] = PyList(<<PyInt("1"), PyFloat(FloatRepr(cfg["row_az"]))>>)
        ELSE Reported(NoOptionError("row_az")) \/ Reported(ParserError("row_az", "float"))

(***************************************************************************)
(* C9: in point mode the site, vegetation, spectral and KN fields are      *)
(* stored as floats; a present but non-numeric lat is reported as a        *)
(* coercion error naming lat and float, and the object is not ready.       *)
(***************************************************************************)
C9_PointFloats ==
    /\ WellFormedOutside({}) /\ ~call.is_image /\ call.parser.interpolation = "none" =>
         \A k \in PropertyFields : k \in DOMAIN params /\ params[k] = PyFloat(FloatRepr(cfg[k]))
    /\ WellFormedOutside({"lat"}) /\ ~call.is_image /\ call.parser.interpolation = "none"
         /\ "lat" \in DOMAIN cfg /\ ~IsFloatLit(cfg["lat"]) =>
         ~ready /\ Reported(ParserError("lat", "float"))

(***************************************************************************)
(* C10: the mapping and the readiness held after a get_data are those the  *)
(* same get_data leaves on a new object, so nothing of an earlier read     *)
(* survives; run changes neither.                                          *)
(***************************************************************************)
C10_Step ==
    /\ call'.op = "get_data" =>
         \E o \in get_data(Fresh, call'.parser, call'.is_image) : params' = o.params /\ ready' = o.ready
    /\ call'.op = "run" => UNCHANGED <<params, ready>>

====
